---- MODULE Spec2Model ----
(***************************************************************************)
(* nu_plugin_json_path: the json path plugin command (src/main.rs).      *)
(*                                                                         *)
(* run() takes one piped nushell Value and an optional query text, turns   *)
(* the input into JSON text, parses it with serde_json, compiles and       *)
(* evaluates the JSONPath query with serde_json_path and converts every    *)
(* resulting node back into a nushell Value.                               *)
(*                                                                         *)
(* Rust Strings that hold JSON text or value contents are sequences of     *)
(* one-character strings; labels and messages of errors are TLA+ strings.  *)
(* A Rust panic (unwrap on None/Err, todo!()) is the outcome "Panic".      *)
(***************************************************************************)
EXTENDS Integers, Sequences, FiniteSets, TLC

VARIABLES
    pc,                 \* position inside run / perform_json_path_query
    input,              \* run's input: &Value
    json_query,         \* run's json_query: Option<Spanned<String>>
    head,               \* call.head
    json_value,         \* run's json_value (Record input only)
    raw,                \* the JSON text handed to perform_json_path_query
    serde_json,         \* perform_json_path_query's parsed document
    path,               \* the compiled JsonPath
    nodes,              \* path.query(&serde_json).all()
    json_path_results,  \* the materialized Vec<Value>
    ret,                \* what the call ended in: Ok, Err or a panic
    lib_pc,             \* direct use of the two pub fns: which were applied
    conv_in,            \* the argument given to value_to_json_value
    conv_out,           \* its outcome
    mat_in,             \* the document given to convert_sjson_to_value
    mat_span,           \* the span given to it
    mat_out             \* its outcome

vars == <<pc, input, json_query, head, json_value, raw, serde_json, path, nodes,
          json_path_results, ret, lib_pc, conv_in, conv_out, mat_in, mat_span, mat_out>>

runVars == <<pc, input, json_query, head, json_value, raw, serde_json, path, nodes,
             json_path_results, ret>>

libVars == <<lib_pc, conv_in, conv_out, mat_in, mat_span, mat_out>>

-----------------------------------------------------------------------------
(* Bounds *)

\* 64-bit integer widths are scaled to WordBits bits.
WordBits == 10

\* Longest List / Record / Binary / CellPath built as an input.
MaxLen == 2

\* Source positions are 1..MaxSpan.
MaxSpan == 2

-----------------------------------------------------------------------------
(* Rust's Option and Result, and a panic *)

None == [some |-> FALSE]

Some(x) == [some |-> TRUE, v |-> x]

Ok(x) == [kind |-> "Ok", val |-> x]

Err(e) == [kind |-> "Err", err |-> e]

Panic(m) == [kind |-> "Panic", what |-> m]

NoValue == [kind |-> "None"]

-----------------------------------------------------------------------------
(* Integers and floats *)

RECURSIVE Pow2(_)
Pow2(n) == IF n = 0 THEN 1 ELSE 2 * Pow2(n - 1)

I64_MAX == Pow2(WordBits - 1) - 1

I64_MIN == -Pow2(WordBits - 1)

U64_MAX == Pow2(WordBits) - 1

U8_MAX == 255

\* An f64: finite values are counted in halves (3 is 1.5), the rest are NaN and
\* the two infinities.
Finite(h) == [cls |-> "finite", halves |-> h]

NaN == [cls |-> "nan", halves |-> 0]

PosInf == [cls |-> "inf", halves |-> 0]

NegInf == [cls |-> "-inf", halves |-> 0]

is_finite(f) == f.cls = "finite"

\* x as f64 of an integer.
as_float(i) == Finite(2 * i)

\* Display of a non-finite f64, as format!("{val}") prints it.
float_display(f) ==
    CASE f.cls = "nan" -> "NaN"
      [] f.cls = "inf" -> "inf"
      [] f.cls = "-inf" -> "-inf"

-----------------------------------------------------------------------------
(* serde_json::Number *)

PosInt(u) == [n |-> "PosInt", u |-> u]

NegInt(i) == [n |-> "NegInt", i |-> i]

NFloat(f) == [n |-> "Float", f |-> f]

\* impl From<i64> for Number
number_from_i64(i) == IF i >= 0 THEN PosInt(i) ELSE NegInt(i)

\* impl From<u64> for Number
number_from_u64(u) == PosInt(u)

\* Number::from_f64
number_from_f64(f) == IF is_finite(f) THEN Some(NFloat(f)) ELSE None

\* Number::is_f64
is_f64(num) == num.n = "Float"

\* Number::as_f64
as_f64(num) ==
    CASE num.n = "Float" -> Some(num.f)
      [] num.n = "PosInt" -> Some(as_float(num.u))
      [] num.n = "NegInt" -> Some(as_float(num.i))

\* Number::as_i64
as_i64(num) ==
    CASE num.n = "PosInt" -> IF num.u <= I64_MAX THEN Some(num.u) ELSE None
      [] num.n = "NegInt" -> Some(num.i)
      [] num.n = "Float" -> None

-----------------------------------------------------------------------------
(* serde_json::Value *)

JNull == [j |-> "Null"]

JBool(b) == [j |-> "Bool", b |-> b]

JNumber(num) == [j |-> "Number", num |-> num]

JString(s) == [j |-> "String", s |-> s]

JArray(a) == [j |-> "Array", a |-> a]

\* An Object's entries, in the map's iteration order.
JObject(m) == [j |-> "Object", o |-> m]

\* Order of the characters used in keys (Rust's byte order of String).
CharRank(c) ==
    CASE c = "a" -> 1
      [] c = "b" -> 2
      [] c = "c" -> 3
      [] c = "p" -> 4
      [] c = "z" -> 5

\* String's Ord: lexicographic.
RECURSIVE StrLess(_, _)
StrLess(s, t) ==
    IF t = <<>> THEN FALSE
    ELSE IF s = <<>> THEN TRUE
    ELSE IF CharRank(Head(s)) # CharRank(Head(t))
         THEN CharRank(Head(s)) < CharRank(Head(t))
    ELSE StrLess(Tail(s), Tail(t))

\* serde_json::Map::insert. The map is a BTreeMap (serde_json without the
\* preserve_order feature; test::spec_example_4 expects the bicycle's price,
\* under the smaller key, before the books'): entries are kept ascending by
\* key and a present key has its value replaced.
RECURSIVE MapInsert(_, _, _)
MapInsert(m, k, v) ==
    IF m = <<>> THEN <<[k |-> k, v |-> v]>>
    ELSE IF Head(m).k = k THEN <<[k |-> k, v |-> v]>> \o Tail(m)
    ELSE IF StrLess(k, Head(m).k) THEN <<[k |-> k, v |-> v]>> \o m
    ELSE <<Head(m)>> \o MapInsert(Tail(m), k, v)

-----------------------------------------------------------------------------
(* nu_protocol::Value *)

VBool(b, s) == [tag |-> "Bool", b |-> b, span |-> s]

VInt(i, s) == [tag |-> "Int", i |-> i, span |-> s]

VFloat(f, s) == [tag |-> "Float", f |-> f, span |-> s]

VFilesize(i, s) == [tag |-> "Filesize", i |-> i, span |-> s]

VDuration(i, s) == [tag |-> "Duration", i |-> i, span |-> s]

VDate(d, s) == [tag |-> "Date", d |-> d, span |-> s]

VString(str, s) == [tag |-> "String", s |-> str, span |-> s]

VNothing(s) == [tag |-> "Nothing", span |-> s]

VBinary(bytes, s) == [tag |-> "Binary", bytes |-> bytes, span |-> s]

VList(vals, s) == [tag |-> "List", vals |-> vals, span |-> s]

\* A Record's columns, in insertion order.
VRecord(rec, s) == [tag |-> "Record", rec |-> rec, span |-> s]

VCellPath(members, s) == [tag |-> "CellPath", members |-> members, span |-> s]

VError(e, s) == [tag |-> "Error", error |-> e, span |-> s]

VClosure(s) == [tag |-> "Closure", span |-> s]

VBlock(s) == [tag |-> "Block", span |-> s]

VRange(s) == [tag |-> "Range", span |-> s]

VGlob(g, s) == [tag |-> "Glob", g |-> g, span |-> s]

\* collect is what the lazy record's collect() returns.
VLazyRecord(collect, s) == [tag |-> "LazyRecord", collect |-> collect, span |-> s]

\* base is what the custom value's to_base_value() returns.
VCustomValue(base, s) == [tag |-> "CustomValue", base |-> base, span |-> s]

PathString(str) == [m |-> "String", s |-> str]

PathInt(n) == [m |-> "Int", n |-> n]

-----------------------------------------------------------------------------
(* Errors *)

LabeledError(label, msg, span) == [label |-> label, msg |-> msg, span |-> span]

\* A ShellError of the host (a failing collect / to_base_value).
ShellError(text, lbl, span) == [error |-> text, msg |-> lbl, span |-> span]

\* impl From<LabeledError> for ShellError: a GenericError of the same parts.
shell_from_labeled(e) == ShellError(e.label, e.msg, e.span)

\* impl From<ShellError> for LabeledError: the error's text, its first label.
labeled_from_shell(se) == LabeledError(se.error, se.msg, se.span)

\* Display of a chrono DateTime (Value::Date's val.to_string()); a date is
\* counted in years since 1970 and only the year is written.
date_to_string(d) ==
    CASE d = 0 -> <<"1", "9", "7", "0">>
      [] d = 1 -> <<"1", "9", "7", "1">>

-----------------------------------------------------------------------------
(* value_to_json_value: nushell Value -> serde_json Value *)

\* Option::unwrap / Result::unwrap
unwrap_none == Panic("called Option::unwrap() on a None value")

unwrap_err == Panic("called Result::unwrap() on an Err value")

unwrap(opt) == IF opt.some THEN Ok(opt.v) ELSE unwrap_none

\* float_arm with zero substituted for a non-finite float.
float_arm_zero(v) ==
    Ok(JNumber(NFloat(IF is_finite(v.f) THEN v.f ELSE Finite(0))))

\* The Value::Float arm: Number::from_f64(*val).ok_or(0.0), an Err(0.0) for a
\* non-finite float, which returns the LabeledError.
float_arm(v) ==
    LET n == number_from_f64(v.f)
    IN  IF n.some
        THEN Ok(JNumber(n.v))
        ELSE Err(LabeledError("Error converting value: " \o float_display(v.f) \o " to f64",
                              "Error converting 0",
                              Some(v.span)))

\* The Value::CellPath arm's closure over one PathMember.
path_member(x) ==
    CASE x.m = "String" -> JString(x.s)
      [] x.m = "Int" -> JNumber(number_from_u64(x.n))

\* The Value::Binary arm's closure over one byte.
binary_byte(x) == JNumber(number_from_u64(x))

\* The Value::Glob arm: todo!().
glob_arm(v) == Panic("not yet implemented")

\* The Closure / Block / Range arm.
null_arm(v) == Ok(JNull)

\* The Value::Error arm.
error_arm(v) ==
    Err(LabeledError("Error found: " \o v.error.error, "Error found", Some(v.span)))

RECURSIVE value_to_json_value(_)
RECURSIVE json_list_loop(_, _)
RECURSIVE record_arm_loop(_, _)

\* json_list's loop: out.push(value_to_json_value(value)?), the LabeledError
\* turned into the ShellError json_list returns.
json_list_loop(rest, acc) ==
    IF rest = <<>> THEN Ok(acc)
    ELSE LET r == value_to_json_value(Head(rest))
         IN  CASE r.kind = "Ok" -> json_list_loop(Tail(rest), Append(acc, r.val))
               [] r.kind = "Err" -> Err(shell_from_labeled(r.err))
               [] r.kind = "Panic" -> r

json_list(vals) == json_list_loop(vals, <<>>)

\* The Value::List arm: SerdeJsonValue::Array(json_list(vals)?).
list_arm(v) ==
    LET r == json_list(v.vals)
    IN  CASE r.kind = "Ok" -> Ok(JArray(r.val))
          [] r.kind = "Err" -> Err(labeled_from_shell(r.err))
          [] r.kind = "Panic" -> r

\* The Value::Record arm's for_each: m.insert(k.clone(),
\* value_to_json_value(v).unwrap()).
record_arm_loop(rest, m) ==
    IF rest = <<>> THEN Ok(JObject(m))
    ELSE LET r == value_to_json_value(Head(rest).v)
         IN  CASE r.kind = "Ok" -> record_arm_loop(Tail(rest), MapInsert(m, Head(rest).k, r.val))
               [] r.kind = "Err" -> unwrap_err
               [] r.kind = "Panic" -> r

record_arm(v) == record_arm_loop(v.rec, <<>>)

\* The LazyRecord arm (capability = v.collect) and the CustomValue arm
\* (capability = v.base): capability?, then value_to_json_value(&collected)?.
deferred_arm(capability) ==
    IF capability.kind = "Err"
    THEN Err(labeled_from_shell(capability.err))
    ELSE value_to_json_value(capability.val)

value_to_json_value(v) ==
    CASE v.tag = "Bool" -> Ok(JBool(v.b))
      [] v.tag = "Filesize" -> Ok(JNumber(number_from_i64(v.i)))
      [] v.tag = "Duration" -> Ok(JNumber(number_from_i64(v.i)))
      [] v.tag = "Date" -> Ok(JString(date_to_string(v.d)))
      [] v.tag = "Float" -> float_arm(v)
      [] v.tag = "Int" -> Ok(JNumber(number_from_i64(v.i)))
      [] v.tag = "Nothing" -> Ok(JNull)
      [] v.tag = "String" -> Ok(JString(v.s))
      [] v.tag = "CellPath" ->
            Ok(JArray([i \in 1..Len(v.members) |-> path_member(v.members[i])]))
      [] v.tag = "List" -> list_arm(v)
      [] v.tag = "Error" -> error_arm(v)
      [] v.tag \in {"Closure", "Block", "Range"} -> null_arm(v)
      [] v.tag = "Binary" ->
            Ok(JArray([i \in 1..Len(v.bytes) |-> binary_byte(v.bytes[i])]))
      [] v.tag = "Record" -> record_arm(v)
      [] v.tag = "LazyRecord" -> deferred_arm(v.collect)
      [] v.tag = "CustomValue" -> deferred_arm(v.base)
      [] v.tag = "Glob" -> glob_arm(v)

-----------------------------------------------------------------------------
(* convert_sjson_to_value: serde_json Value -> nushell Value *)

\* number_arm with every Number taken as an f64.
number_arm_all_float(f, span) == Ok(VFloat(as_f64(f).v, span))

\* The SerdeJsonValue::Number arm: is_f64 decides between as_f64().unwrap()
\* and as_i64().unwrap().
number_arm(f, span) ==
    IF is_f64(f)
    THEN LET x == unwrap(as_f64(f))
         IN  IF x.kind = "Ok" THEN Ok(VFloat(x.val, span)) ELSE x
    ELSE LET x == unwrap(as_i64(f))
         IN  IF x.kind = "Ok" THEN Ok(VInt(x.val, span)) ELSE x

RECURSIVE convert_sjson_to_value(_, _)
RECURSIVE convert_array_loop(_, _, _)
RECURSIVE convert_object_loop(_, _, _)

\* The Array arm's map: elements in order, each with the same span.
convert_array_loop(rest, acc, span) ==
    IF rest = <<>> THEN Ok(acc)
    ELSE LET r == convert_sjson_to_value(Head(rest), span)
         IN  IF r.kind = "Ok"
             THEN convert_array_loop(Tail(rest), Append(acc, r.val), span)
             ELSE r

\* The Object arm's loop: rec.push(k.clone(), convert_sjson_to_value(v, span)).
convert_object_loop(rest, rec, span) ==
    IF rest = <<>> THEN Ok(rec)
    ELSE LET r == convert_sjson_to_value(Head(rest).v, span)
         IN  IF r.kind = "Ok"
             THEN convert_object_loop(Tail(rest),
                                      Append(rec, [k |-> Head(rest).k, v |-> r.val]), span)
             ELSE r

convert_sjson_to_value(value, span) ==
    CASE value.j = "Array" ->
            LET r == convert_array_loop(value.a, <<>>, span)
            IN  IF r.kind = "Ok" THEN Ok(VList(r.val, span)) ELSE r
      [] value.j = "Bool" -> Ok(VBool(value.b, span))
      [] value.j = "Number" -> number_arm(value.num, span)
      [] value.j = "Null" -> Ok(VNothing(span))
      [] value.j = "Object" ->
            LET r == convert_object_loop(value.o, <<>>, span)
            IN  IF r.kind = "Ok" THEN Ok(VRecord(r.val, span)) ELSE r
      [] value.j = "String" -> Ok(VString(value.s, span))

-----------------------------------------------------------------------------
(* serde_json::to_string: serde_json Value -> JSON text *)

DigitChars == <<"0", "1", "2", "3", "4", "5", "6", "7", "8", "9">>

IsDigit(c) == \E d \in 1..10 : DigitChars[d] = c

DigitVal(c) == (CHOOSE d \in 1..10 : DigitChars[d] = c) - 1

\* itoa: the decimal digits of a non-negative integer.
RECURSIVE Digits(_)
Digits(n) ==
    IF n < 10 THEN <<DigitChars[n + 1]>>
    ELSE Digits(n \div 10) \o <<DigitChars[(n % 10) + 1]>>

Abs(x) == IF x < 0 THEN -x ELSE x

\* A finite f64 is written with a fraction part (ryu): 2.0, -1.5.
float_text(f) ==
    (IF f.halves < 0 THEN <<"-">> ELSE <<>>)
        \o Digits(Abs(f.halves) \div 2)
        \o <<".", IF Abs(f.halves) % 2 = 0 THEN "0" ELSE "5">>

number_text(num) ==
    CASE num.n = "PosInt" -> Digits(num.u)
      [] num.n = "NegInt" -> <<"-">> \o Digits(-num.i)
      [] num.n = "Float" -> float_text(num.f)

\* String contents here hold no quote, backslash or control character, so
\* nothing is escaped.
string_text(str) == <<"\"">> \o str \o <<"\"">>

RECURSIVE to_string(_)
RECURSIVE array_text(_)
RECURSIVE object_text(_)

array_text(a) ==
    IF a = <<>> THEN <<>>
    ELSE to_string(Head(a))
            \o (IF Tail(a) = <<>> THEN <<>> ELSE <<",">> \o array_text(Tail(a)))

object_text(o) ==
    IF o = <<>> THEN <<>>
    ELSE string_text(Head(o).k) \o <<":">> \o to_string(Head(o).v)
            \o (IF Tail(o) = <<>> THEN <<>> ELSE <<",">> \o object_text(Tail(o)))

to_string(json) ==
    CASE json.j = "Null" -> <<"n", "u", "l", "l">>
      [] json.j = "Bool" ->
            IF json.b THEN <<"t", "r", "u", "e">> ELSE <<"f", "a", "l", "s", "e">>
      [] json.j = "Number" -> number_text(json.num)
      [] json.j = "String" -> string_text(json.s)
      [] json.j = "Array" -> <<"[">> \o array_text(json.a) \o <<"]">>
      [] json.j = "Object" -> <<"{">> \o object_text(json.o) \o <<"}">>

-----------------------------------------------------------------------------
(* serde_json::from_str: JSON text -> serde_json Value *)

Parsed(v, pos) == [ok |-> TRUE, val |-> v, pos |-> pos]

SyntaxError(msg) == [ok |-> FALSE, msg |-> msg]

RECURSIVE skip_ws(_, _)
skip_ws(text, i) ==
    IF i <= Len(text) /\ text[i] = " " THEN skip_ws(text, i + 1) ELSE i

\* Whether `word` stands in `text` at position i.
Stands(text, i, word) ==
    /\ i + Len(word) - 1 <= Len(text)
    /\ SubSeq(text, i, i + Len(word) - 1) = word

\* The position after the run of digits starting at i.
RECURSIVE digits_end(_, _)
digits_end(text, i) ==
    IF i <= Len(text) /\ IsDigit(text[i]) THEN digits_end(text, i + 1) ELSE i

\* The value of the digits text[i..j-1].
RECURSIVE digits_value(_, _, _)
digits_value(text, i, j) ==
    IF i >= j THEN 0
    ELSE 10 * digits_value(text, i, j - 1) + DigitVal(text[j - 1])

\* `res as i64` and i64::wrapping_neg.
as_i64_wrapping(u) == IF u > I64_MAX THEN u - (U64_MAX + 1) ELSE u

wrapping_neg(i) == IF i = I64_MIN THEN I64_MIN ELSE -i

\* An integer literal without fraction: u64 if it fits, else f64; a negative
\* one is an i64 if its negation is negative, else f64.
integer_literal(positive, mag) ==
    IF mag > U64_MAX
    THEN NFloat(as_float(IF positive THEN mag ELSE -mag))
    ELSE IF positive THEN PosInt(mag)
    ELSE LET neg == wrapping_neg(as_i64_wrapping(mag))
         IN  IF neg >= 0 THEN NFloat(as_float(-mag)) ELSE NegInt(neg)

\* A literal with a fraction is an f64 (fractions .0 and .5 are representable).
fraction_literal(positive, mag, text, i, j) ==
    LET half == CASE j = i + 1 /\ text[i] = "0" -> 0
                  [] j = i + 1 /\ text[i] = "5" -> 1
        h == 2 * mag + half
    IN  NFloat(Finite(IF positive THEN h ELSE -h))

parse_number(text, start) ==
    LET positive == text[start] # "-"
        i == IF positive THEN start ELSE start + 1
        j == digits_end(text, i)
        mag == digits_value(text, i, j)
    IN  IF j = i THEN SyntaxError("invalid number")
        ELSE IF text[i] = "0" /\ j > i + 1 THEN SyntaxError("invalid number")
        ELSE IF j <= Len(text) /\ text[j] = "."
             THEN LET k == digits_end(text, j + 1)
                  IN  IF k = j + 1 THEN SyntaxError("invalid number")
                      ELSE Parsed(JNumber(fraction_literal(positive, mag, text, j + 1, k)), k)
        ELSE Parsed(JNumber(integer_literal(positive, mag)), j)

\* The position of the closing quote at or after i, or Len(text) + 1.
RECURSIVE quote_at(_, _)
quote_at(text, i) ==
    IF i <= Len(text) /\ text[i] # "\"" THEN quote_at(text, i + 1) ELSE i

\* text[start] is the opening quote.
parse_string(text, start) ==
    LET q == quote_at(text, start + 1)
    IN  IF q > Len(text) THEN SyntaxError("EOF while parsing a string")
        ELSE Parsed(SubSeq(text, start + 1, q - 1), q + 1)

RECURSIVE parse_value(_, _)
RECURSIVE parse_array(_, _, _, _)
RECURSIVE parse_object(_, _, _, _)

\* The elements after the opening bracket; `first` until one element is read.
parse_array(text, i0, acc, first) ==
    LET i == skip_ws(text, i0)
    IN  IF i > Len(text) THEN SyntaxError("EOF while parsing a list")
        ELSE IF text[i] = "]"
             THEN Parsed(JArray(acc), i + 1)
        ELSE IF first
             THEN LET r == parse_value(text, i)
                  IN  IF r.ok THEN parse_array(text, r.pos, Append(acc, r.val), FALSE) ELSE r
        ELSE IF text[i] = ","
             THEN LET n == skip_ws(text, i + 1)
                  IN  IF n <= Len(text) /\ text[n] = "]"
                      THEN SyntaxError("trailing comma")
                      ELSE LET r == parse_value(text, n)
                           IN  IF r.ok
                               THEN parse_array(text, r.pos, Append(acc, r.val), FALSE)
                               ELSE r
        ELSE SyntaxError("expected , or ]")

\* One "key": value entry at i, inserted into the map m.
parse_entry(text, i, m) ==
    IF i > Len(text) THEN SyntaxError("EOF while parsing an object")
    ELSE IF text[i] # "\"" THEN SyntaxError("key must be a string")
    ELSE LET k == parse_string(text, i)
         IN  IF ~k.ok THEN k
             ELSE LET c == skip_ws(text, k.pos)
                  IN  IF c > Len(text) THEN SyntaxError("EOF while parsing an object")
                      ELSE IF text[c] # ":" THEN SyntaxError("expected :")
                      ELSE LET r == parse_value(text, c + 1)
                           IN  IF r.ok
                               THEN Parsed(MapInsert(m, k.val, r.val), r.pos)
                               ELSE r

\* The entries after the opening brace.
parse_object(text, i0, m, first) ==
    LET i == skip_ws(text, i0)
    IN  IF i > Len(text) THEN SyntaxError("EOF while parsing an object")
        ELSE IF text[i] = "}"
             THEN Parsed(JObject(m), i + 1)
        ELSE IF first
             THEN LET e == parse_entry(text, i, m)
                  IN  IF e.ok THEN parse_object(text, e.pos, e.val, FALSE) ELSE e
        ELSE IF text[i] = ","
             THEN LET n == skip_ws(text, i + 1)
                  IN  IF n <= Len(text) /\ text[n] = "}"
                      THEN SyntaxError("trailing comma")
                      ELSE LET e == parse_entry(text, n, m)
                           IN  IF e.ok THEN parse_object(text, e.pos, e.val, FALSE) ELSE e
        ELSE SyntaxError("expected , or }")

parse_value(text, i0) ==
    LET i == skip_ws(text, i0)
    IN  IF i > Len(text) THEN SyntaxError("EOF while parsing a value")
        ELSE IF text[i] = "n"
             THEN IF Stands(text, i, <<"n", "u", "l", "l">>)
                  THEN Parsed(JNull, i + 4) ELSE SyntaxError("expected ident")
        ELSE IF text[i] = "t"
             THEN IF Stands(text, i, <<"t", "r", "u", "e">>)
                  THEN Parsed(JBool(TRUE), i + 4) ELSE SyntaxError("expected ident")
        ELSE IF text[i] = "f"
             THEN IF Stands(text, i, <<"f", "a", "l", "s", "e">>)
                  THEN Parsed(JBool(FALSE), i + 5) ELSE SyntaxError("expected ident")
        ELSE IF text[i] = "-" \/ IsDigit(text[i]) THEN parse_number(text, i)
        ELSE IF text[i] = "\""
             THEN LET r == parse_string(text, i)
                  IN  IF r.ok THEN Parsed(JString(r.val), r.pos) ELSE r
        ELSE IF text[i] = "[" THEN parse_array(text, i + 1, <<>>, TRUE)
        ELSE IF text[i] = "{" THEN parse_object(text, i + 1, <<>>, TRUE)
        ELSE SyntaxError("expected value")

\* from_str: one value, then only whitespace.
from_str(text) ==
    LET r == parse_value(text, 1)
    IN  IF ~r.ok THEN Err(r.msg)
        ELSE IF skip_ws(text, r.pos) <= Len(text) THEN Err("trailing characters")
        ELSE Ok(r.val)

-----------------------------------------------------------------------------
(* serde_json_path: JsonPath::parse and JsonPath::query(..).all()            *)
(* Query texts are TLA+ strings; the grammar is the engine's own.          *)

Wildcard == [sel |-> "wildcard"]

Index(i) == [sel |-> "index", i |-> i]

Name(k) == [sel |-> "name", k |-> k]

Segment(descendant, selectors) == [descendant |-> descendant, selectors |-> selectors]

\* A compiled JsonPath.
JsonPath(segments) == [segments |-> segments]

\* JsonPath::parse on the query texts used here.
JsonPath_parse(query) ==
    CASE query = "$" -> Ok(JsonPath(<<>>))
      [] query = "$[*]" -> Ok(JsonPath(<<Segment(FALSE, <<Wildcard>>)>>))
      [] query = "$[0,0]" -> Ok(JsonPath(<<Segment(FALSE, <<Index(0), Index(0)>>)>>))
      [] query = "$..*" -> Ok(JsonPath(<<Segment(TRUE, <<Wildcard>>)>>))
      [] query = "$.a" -> Ok(JsonPath(<<Segment(FALSE, <<Name(<<"a">>)>>)>>))
      [] query = "$[" -> Err("parser error: unterminated bracket")

\* The children of a node, in order.
Children(node) ==
    CASE node.j = "Array" -> node.a
      [] node.j = "Object" -> [i \in 1..Len(node.o) |-> node.o[i].v]
      [] OTHER -> <<>>

\* One selector applied to one node.
Select(selector, node) ==
    CASE selector.sel = "wildcard" -> Children(node)
      [] selector.sel = "index" ->
            IF node.j = "Array" /\ selector.i < Len(node.a)
            THEN <<node.a[selector.i + 1]>> ELSE <<>>
      [] selector.sel = "name" ->
            IF node.j = "Object"
            THEN LET hit == SelectSeq(node.o, LAMBDA e : e.k = selector.k)
                 IN  [i \in 1..Len(hit) |-> hit[i].v]
            ELSE <<>>

RECURSIVE SelectAll(_, _)
SelectAll(selectors, node) ==
    IF selectors = <<>> THEN <<>>
    ELSE Select(Head(selectors), node) \o SelectAll(Tail(selectors), node)

\* A segment applied to one node: its selectors, and for a descendant
\* segment the same on every child in turn.
RECURSIVE SegmentQuery(_, _)
RECURSIVE Descend(_, _)

Descend(segment, children) ==
    IF children = <<>> THEN <<>>
    ELSE SegmentQuery(segment, Head(children)) \o Descend(segment, Tail(children))

SegmentQuery(segment, node) ==
    SelectAll(segment.selectors, node)
        \o (IF segment.descendant THEN Descend(segment, Children(node)) ELSE <<>>)

RECURSIVE SegmentOver(_, _)
SegmentOver(segment, current) ==
    IF current = <<>> THEN <<>>
    ELSE SegmentQuery(segment, Head(current)) \o SegmentOver(segment, Tail(current))

RECURSIVE QueryFrom(_, _)
QueryFrom(segments, current) ==
    IF segments = <<>> THEN current
    ELSE QueryFrom(Tail(segments), SegmentOver(Head(segments), current))

\* path.query(&serde_json).all()
JsonPath_query_all(compiled, document) == QueryFrom(compiled.segments, <<document>>)

-----------------------------------------------------------------------------
(* Value::get_type, as its Display prints it *)

RECURSIVE get_type(_)
get_type(v) ==
    CASE v.tag = "Bool" -> "bool"
      [] v.tag = "Int" -> "int"
      [] v.tag = "Float" -> "float"
      [] v.tag = "Filesize" -> "filesize"
      [] v.tag = "Duration" -> "duration"
      [] v.tag = "Date" -> "date"
      [] v.tag = "Nothing" -> "nothing"
      [] v.tag = "Binary" -> "binary"
      [] v.tag = "CellPath" -> "cell-path"
      [] v.tag = "Error" -> "error"
      [] v.tag = "Closure" -> "closure"
      [] v.tag = "Block" -> "block"
      [] v.tag = "Range" -> "range"
      [] v.tag = "Glob" -> "glob"
      [] v.tag = "String" -> "string"
      [] v.tag = "List" ->
            IF v.vals # <<>> /\ \A i \in 1..Len(v.vals) : get_type(v.vals[i]) = get_type(v.vals[1])
            THEN "list<" \o get_type(v.vals[1]) \o ">"
            ELSE "list<any>"

-----------------------------------------------------------------------------
(* NuJsonPath::run and perform_json_path_query, step by step *)

\* input_shape with a List taken like a Record.
input_shape_list_as_record(v) ==
    CASE v.tag = "String" -> "text"
      [] v.tag \in {"Record", "List"} -> "record"
      [] OTHER -> "unsupported"

\* The match on the input's variant.
input_shape(v) ==
    CASE v.tag = "String" -> "text"
      [] v.tag = "Record" -> "record"
      [] OTHER -> "unsupported"

\* The error of the match's last arm.
unsupported_input(v, call_head) ==
    LabeledError("Expected some input from pipeline",
                 "requires some input, got " \o get_type(v),
                 Some(call_head))

invalid_json(e, span) == LabeledError("Error parsing json", e, Some(span))

missing_query(span) ==
    LabeledError("Error parsing json query string", "No json path query provided", Some(span))

invalid_query(e, span) == LabeledError("Error parsing json query", e, Some(span))

\* .into_iter().map(|v| convert_sjson_to_value(v, *span)).collect()
RECURSIVE collect_loop(_, _, _)
collect_loop(rest, acc, span) ==
    IF rest = <<>> THEN Ok(acc)
    ELSE LET r == convert_sjson_to_value(Head(rest), span)
         IN  IF r.kind = "Ok" THEN collect_loop(Tail(rest), Append(acc, r.val), span) ELSE r

\* collect_results with nodes equal to an earlier one left out.
collect_results_dedup(all, span) ==
    LET kept == SelectSeq([i \in 1..Len(all) |-> i],
                          LAMBDA i : \A j \in 1..(i - 1) : all[j] # all[i])
    IN  collect_loop([i \in 1..Len(kept) |-> all[kept[i]]], <<>>, span)

collect_results(all, span) == collect_loop(all, <<>>, span)

\* run binds the query (call.opt(0)?, the host passing a string or nothing),
\* the call's head and the input's span, then matches.
Call(v, q, h) ==
    /\ pc = "idle"
    /\ pc' = "match"
    /\ input' = v
    /\ json_query' = q
    /\ head' = h
    /\ UNCHANGED <<json_value, raw, serde_json, path, nodes, json_path_results, ret>>
    /\ UNCHANGED libVars

MatchInput ==
    /\ pc = "match"
    /\ CASE input_shape(input) = "text" ->
                /\ raw' = input.s
                /\ pc' = "parse"
                /\ ret' = ret
         [] input_shape(input) = "record" ->
                /\ raw' = raw
                /\ pc' = "convert"
                /\ ret' = ret
         [] input_shape(input) = "unsupported" ->
                /\ raw' = raw
                /\ pc' = "done"
                /\ ret' = Err(unsupported_input(input, head))
    /\ UNCHANGED <<input, json_query, head, json_value, serde_json, path, nodes,
                   json_path_results>>
    /\ UNCHANGED libVars

\* let json_value = value_to_json_value(input)?;
Convert ==
    /\ pc = "convert"
    /\ LET r == value_to_json_value(input)
       IN  IF r.kind = "Ok"
           THEN /\ json_value' = r.val
                /\ pc' = "serialize"
                /\ ret' = ret
           ELSE /\ json_value' = json_value
                /\ pc' = "done"
                /\ ret' = r
    /\ UNCHANGED <<input, json_query, head, raw, serde_json, path, nodes, json_path_results>>
    /\ UNCHANGED libVars

\* let raw = serde_json::to_string(&json_value).unwrap();
Serialize ==
    /\ pc = "serialize"
    /\ raw' = to_string(json_value)
    /\ pc' = "parse"
    /\ UNCHANGED <<input, json_query, head, json_value, serde_json, path, nodes,
                   json_path_results, ret>>
    /\ UNCHANGED libVars

\* serde_json::from_str(input).map_err(..)?, with the input's span.
ParseJson ==
    /\ pc = "parse"
    /\ LET r == from_str(raw)
       IN  IF r.kind = "Ok"
           THEN /\ serde_json' = r.val
                /\ pc' = "query"
                /\ ret' = ret
           ELSE /\ serde_json' = serde_json
                /\ pc' = "done"
                /\ ret' = Err(invalid_json(r.err, input.span))
    /\ UNCHANGED <<input, json_query, head, json_value, raw, path, nodes, json_path_results>>
    /\ UNCHANGED libVars

\* match &json_query.as_ref() { Some(p) => &p.item, None => return Err(..) }
GetQuery ==
    /\ pc = "query"
    /\ IF json_query.some
       THEN /\ pc' = "compile"
            /\ ret' = ret
       ELSE /\ pc' = "done"
            /\ ret' = Err(missing_query(input.span))
    /\ UNCHANGED <<input, json_query, head, json_value, raw, serde_json, path, nodes,
                   json_path_results>>
    /\ UNCHANGED libVars

\* JsonPath::parse(query).map_err(..)?
Compile ==
    /\ pc = "compile"
    /\ LET r == JsonPath_parse(json_query.v.item)
       IN  IF r.kind = "Ok"
           THEN /\ path' = r.val
                /\ pc' = "evaluate"
                /\ ret' = ret
           ELSE /\ path' = path
                /\ pc' = "done"
                /\ ret' = Err(invalid_query(r.err, input.span))
    /\ UNCHANGED <<input, json_query, head, json_value, raw, serde_json, nodes,
                   json_path_results>>
    /\ UNCHANGED libVars

\* path.query(&serde_json).all()
Evaluate ==
    /\ pc = "evaluate"
    /\ nodes' = JsonPath_query_all(path, serde_json)
    /\ pc' = "materialize"
    /\ UNCHANGED <<input, json_query, head, json_value, raw, serde_json, path,
                   json_path_results, ret>>
    /\ UNCHANGED libVars

\* Every node through convert_sjson_to_value, with the span the caller passed:
\* run passes input_span.
Materialize ==
    /\ pc = "materialize"
    /\ LET r == collect_results(nodes, input.span)
       IN  IF r.kind = "Ok"
           THEN /\ json_path_results' = r.val
                /\ pc' = "wrap"
                /\ ret' = ret
           ELSE /\ json_path_results' = json_path_results
                /\ pc' = "done"
                /\ ret' = r
    /\ UNCHANGED <<input, json_query, head, json_value, raw, serde_json, path, nodes>>
    /\ UNCHANGED libVars

\* let ret_list = Value::list(json_path_results, span); Ok(ret_list)
Wrap ==
    /\ pc = "wrap"
    /\ ret' = Ok(VList(json_path_results, head))
    /\ pc' = "done"
    /\ UNCHANGED <<input, json_query, head, json_value, raw, serde_json, path, nodes,
                   json_path_results>>
    /\ UNCHANGED libVars

\* The call is over; everything it created is dropped.
Return ==
    /\ pc = "done"
    /\ pc' = "idle"
    /\ input' = NoValue
    /\ json_query' = NoValue
    /\ head' = NoValue
    /\ json_value' = NoValue
    /\ raw' = NoValue
    /\ serde_json' = NoValue
    /\ path' = NoValue
    /\ nodes' = NoValue
    /\ json_path_results' = NoValue
    /\ ret' = NoValue
    /\ UNCHANGED libVars

-----------------------------------------------------------------------------
(* The two pub fns used directly *)

Canonicalize(v) ==
    /\ lib_pc = "idle"
    /\ lib_pc' = "canonicalized"
    /\ conv_in' = v
    /\ conv_out' = value_to_json_value(v)
    /\ UNCHANGED <<mat_in, mat_span, mat_out>>
    /\ UNCHANGED runVars

\* The document value_to_json_value returned, materialized with span p.
MaterializeBack(p) ==
    /\ lib_pc = "canonicalized"
    /\ conv_out.kind = "Ok"
    /\ lib_pc' = "materialized"
    /\ mat_in' = conv_out.val
    /\ mat_span' = p
    /\ mat_out' = convert_sjson_to_value(conv_out.val, p)
    /\ UNCHANGED <<conv_in, conv_out>>
    /\ UNCHANGED runVars

MaterializeDoc(d, p) ==
    /\ lib_pc = "idle"
    /\ lib_pc' = "materialized"
    /\ mat_in' = d
    /\ mat_span' = p
    /\ mat_out' = convert_sjson_to_value(d, p)
    /\ UNCHANGED <<conv_in, conv_out>>
    /\ UNCHANGED runVars

Drop ==
    /\ lib_pc # "idle"
    /\ lib_pc' = "idle"
    /\ conv_in' = NoValue
    /\ conv_out' = NoValue
    /\ mat_in' = NoValue
    /\ mat_span' = NoValue
    /\ mat_out' = NoValue
    /\ UNCHANGED runVars

-----------------------------------------------------------------------------
(* The inputs *)

Spans == 1..MaxSpan

KeyA == <<"a">>

KeyB == <<"b">>

Keys == {KeyA, KeyB}

\* Sequences of at most MaxLen elements of S.
SeqsUpTo(S) == UNION {[1..n -> S] : n \in 0..MaxLen}

\* Record columns over children C: at most MaxLen columns, keys distinct.
ColumnsOver(C) ==
    {cols \in SeqsUpTo([k : Keys, v : C]) :
        \A i, j \in 1..Len(cols) : i # j => cols[i].k # cols[j].k}

HostError == ShellError("host error", "capability failed", Some(1))

\* Children of the Records piped into run.
RunChildren ==
    { VInt(1, 1), VString(KeyA, 1), VFloat(Finite(3), 1), VFloat(NaN, MaxSpan),
      VList(<<VInt(2, 1), VInt(2, 1)>>, 1),
      VRecord(<<[k |-> KeyB, v |-> VNothing(1)]>>, 1) }

RecordInputs == {VRecord(cols, s) : cols \in ColumnsOver(RunChildren), s \in Spans}

\* JSON texts piped into run as Strings: documents as serde_json writes
\* them, a document cut short, hand-written ones.
SampleDocs ==
    { JArray(<<JNumber(PosInt(1)), JNumber(PosInt(1)), JNumber(NFloat(Finite(3)))>>),
      JArray(<<JArray(<<JBool(TRUE)>>), JString(KeyA)>>),
      JArray(<<JNumber(PosInt(I64_MAX + 1))>>),
      JArray(<<JNumber(NegInt(I64_MIN)), JNumber(PosInt(I64_MAX))>>),
      JObject(<<[k |-> KeyA, v |-> JArray(<<JNull>>)], [k |-> KeyB, v |-> JNumber(NegInt(-2))]>>),
      JNumber(PosInt(U64_MAX)),
      JNull }

Texts ==
    {to_string(d) : d \in SampleDocs}
        \cup {SubSeq(to_string(d), 1, Len(to_string(d)) - 1) : d \in SampleDocs}
        \cup { <<"{", "\"", "b", "\"", ":", "1", ",", " ", "\"", "a", "\"", ":", "[", "]", "}">>,
               <<"[", "1", ",", "]">>,
               <<"a">> }

StringInputs == {VString(t, s) : t \in Texts, s \in Spans}

\* Inputs of every other variant.
OtherAt(s) ==
    { VBool(TRUE, s), VInt(I64_MAX, s), VFloat(Finite(3), s), VFloat(NaN, s),
      VFilesize(1, s), VDuration(1, s), VDate(0, s), VNothing(s),
             VBinary(<<0, U8_MAX>>, s), VList(<<>>, s), VList(<<VInt(1, 1), VInt(2, 1)>>, s),
             VList(<<VString(<<"[", "]">>, 1), VInt(2, 1)>>, s),
             VCellPath(<<PathString(KeyA)>>, s), VError(HostError, s),
             VClosure(s), VBlock(s), VRange(s), VGlob(<<"*">>, s) }

OtherInputs == UNION {OtherAt(s) : s \in Spans}

QueryTexts == {"$", "$[*]", "$[0,0]", "$..*", "$.a", "$["}

\* call.opt(0): the query argument with its own span, or none.
Queries == {None} \cup {Some([item |-> t, span |-> 1]) : t \in QueryTexts}

\* Values given to value_to_json_value directly.
LibLeaves(s) ==
    { VBool(TRUE, s), VBool(FALSE, s),
      VInt(I64_MIN, s), VInt(-1, s), VInt(0, s), VInt(I64_MAX, s),
      VFloat(Finite(-3), s), VFloat(Finite(0), s), VFloat(Finite(4), s),
      VFloat(NaN, s), VFloat(PosInf, s), VFloat(NegInf, s),
      VString(<<>>, s), VString(KeyA, s), VNothing(s),
      VFilesize(1, s), VDuration(-1, s), VDate(0, s), VDate(1, s),
      VBinary(<<>>, s), VBinary(<<0, U8_MAX>>, s),
      VCellPath(<<PathString(KeyA), PathInt(0)>>, s), VCellPath(<<PathInt(U64_MAX)>>, s),
      VError(HostError, s), VClosure(s), VBlock(s), VRange(s), VGlob(<<"*">>, s),
      VLazyRecord(Err(HostError), s), VCustomValue(Err(HostError), s) }

LibChildren ==
    { VInt(-1, 1), VFloat(Finite(4), 1), VFloat(PosInf, MaxSpan), VString(KeyA, 1),
      VNothing(1), VBinary(<<U8_MAX>>, 1), VError(HostError, MaxSpan),
      VLazyRecord(Err(HostError), 1),
      VLazyRecord(Ok(VRecord(<<[k |-> KeyA, v |-> VInt(0, 1)]>>, 1)), 1),
      VCustomValue(Ok(VFloat(NaN, MaxSpan)), 1),
      VList(<<VBool(TRUE, 1), VFloat(NaN, MaxSpan)>>, 1),
      VList(<<VInt(0, 1), VInt(0, 1)>>, 1),
      VRecord(<<[k |-> KeyB, v |-> VInt(1, 1)], [k |-> KeyA, v |-> VString(KeyB, 1)]>>, 1),
      VRecord(<<[k |-> KeyA, v |-> VError(HostError, MaxSpan)]>>, 1) }

LibValues ==
    UNION {LibLeaves(s) : s \in Spans}
        \cup LibChildren
        \cup {VList(vals, s) : vals \in SeqsUpTo(LibChildren), s \in Spans}
        \cup {VRecord(cols, s) : cols \in ColumnsOver(LibChildren), s \in Spans}

\* Documents given to convert_sjson_to_value directly.
LibNumbers ==
    { PosInt(0), PosInt(I64_MAX), PosInt(I64_MAX + 1), PosInt(U64_MAX),
      NegInt(-1), NegInt(I64_MIN),
      NFloat(Finite(3)), NFloat(Finite(4)), NFloat(Finite(-3)), NFloat(as_float(U64_MAX + 1)) }

LibDocs ==
    {JNumber(x) : x \in LibNumbers}
        \cup {JArray(a) : a \in SeqsUpTo({JNumber(x) : x \in LibNumbers} \cup {JNull})}
        \cup {JNull, JBool(FALSE), JString(KeyA),
              JObject(<<[k |-> KeyA, v |-> JNumber(PosInt(U64_MAX))]>>)}

-----------------------------------------------------------------------------
(* Specifications *)

Init ==
    /\ pc = "idle"
    /\ input = NoValue
    /\ json_query = NoValue
    /\ head = NoValue
    /\ json_value = NoValue
    /\ raw = NoValue
    /\ serde_json = NoValue
    /\ path = NoValue
    /\ nodes = NoValue
    /\ json_path_results = NoValue
    /\ ret = NoValue
    /\ lib_pc = "idle"
    /\ conv_in = NoValue
    /\ conv_out = NoValue
    /\ mat_in = NoValue
    /\ mat_span = NoValue
    /\ mat_out = NoValue

Next ==
    \/ \E v \in StringInputs \cup RecordInputs \cup OtherInputs, q \in Queries, h \in Spans :
            Call(v, q, h)
    \/ MatchInput
    \/ Convert
    \/ Serialize
    \/ ParseJson
    \/ GetQuery
    \/ Compile
    \/ Evaluate
    \/ Materialize
    \/ Wrap
    \/ Return

\* The plugin command: calls of run, one after the other.
Spec == Init /\ [][Next]_vars

LibNext ==
    \/ \E v \in LibValues : Canonicalize(v)
    \/ \E p \in Spans : MaterializeBack(p)
    \/ \E d \in LibDocs, p \in Spans : MaterializeDoc(d, p)
    \/ Drop

\* value_to_json_value and convert_sjson_to_value applied to given arguments.
LibSpec == Init /\ [][LibNext]_vars

-----------------------------------------------------------------------------
(* Properties *)

IsMissingQuery(e) == e.msg = "No json path query provided"

IsUnsupportedInput(e) == e.label = "Expected some input from pipeline"

IsInvalidJson(e) == e.label = "Error parsing json"

IsInvalidQuery(e) == e.label = "Error parsing json query"

\* The value_to_json_value application at hand.
Canonicalized == lib_pc # "idle" /\ conv_in # NoValue

\* A round trip at hand: value_to_json_value, then convert_sjson_to_value.
RoundTripped == lib_pc = "materialized" /\ conv_in # NoValue

\* Every span carried inside a value.
RECURSIVE SpansOf(_)
SpansOf(v) ==
    {v.span} \cup
        CASE v.tag = "List" -> UNION {SpansOf(v.vals[i]) : i \in 1..Len(v.vals)}
          [] v.tag = "Record" -> UNION {SpansOf(v.rec[i].v) : i \in 1..Len(v.rec)}
          [] OTHER -> {}

\* v with every span replaced by p.
RECURSIVE Restamp(_, _)
Restamp(v, p) ==
    CASE v.tag = "List" -> VList([i \in 1..Len(v.vals) |-> Restamp(v.vals[i], p)], p)
      [] v.tag = "Record" ->
            VRecord([i \in 1..Len(v.rec) |-> [k |-> v.rec[i].k, v |-> Restamp(v.rec[i].v, p)]], p)
      [] OTHER -> [v EXCEPT !.span = p]

\* The columns in ascending key order (keys are distinct).
Ascending(cols) ==
    [i \in 1..Len(cols) |->
        CHOOSE c \in {cols[j] : j \in 1..Len(cols)} :
            Cardinality({j \in 1..Len(cols) : StrLess(cols[j].k, c.k)}) = i - 1]

\* v with every span replaced by p, every Record's columns in ascending key
\* order and every Binary as the List of its bytes.
RECURSIVE Normalized(_, _)
Normalized(v, p) ==
    CASE v.tag = "List" -> VList([i \in 1..Len(v.vals) |-> Normalized(v.vals[i], p)], p)
      [] v.tag = "Record" ->
            VRecord(Ascending([i \in 1..Len(v.rec) |->
                                  [k |-> v.rec[i].k, v |-> Normalized(v.rec[i].v, p)]]), p)
      [] v.tag = "Binary" -> VList([i \in 1..Len(v.bytes) |-> VInt(v.bytes[i], p)], p)
      [] OTHER -> [v EXCEPT !.span = p]

\* Built only from the given scalar variants, List and Record.
RECURSIVE BuiltFrom(_, _)
BuiltFrom(v, scalars) ==
    CASE v.tag = "List" -> \A i \in 1..Len(v.vals) : BuiltFrom(v.vals[i], scalars)
      [] v.tag = "Record" -> \A i \in 1..Len(v.rec) : BuiltFrom(v.rec[i].v, scalars)
      [] v.tag = "Float" -> "Float" \in scalars /\ is_finite(v.f)
      [] OTHER -> v.tag \in scalars

\* A child, at any depth, whose conversion fails.
RECURSIVE HasFailingChild(_)
HasFailingChild(v) ==
    CASE v.tag = "List" ->
            \E i \in 1..Len(v.vals) : HasFailingChild(v.vals[i])
      [] v.tag = "Record" ->
            \E i \in 1..Len(v.rec) : HasFailingChild(v.rec[i].v)
      [] v.tag = "Error" -> TRUE
      [] v.tag = "Float" -> ~is_finite(v.f)
      [] v.tag = "LazyRecord" ->
            v.collect.kind = "Err" \/ HasFailingChild(v.collect.val)
      [] v.tag = "CustomValue" ->
            v.base.kind = "Err" \/ HasFailingChild(v.base.val)
      [] OTHER -> FALSE

\* C1: a call of run without a query text ends in the MissingQuery error ("No
\* json path query provided") whatever the piped input is: the missing query is
\* found before the input's shape is checked and before the JSON text is parsed.
C1_MissingQueryFirst ==
    (pc = "done" /\ ~json_query.some /\ ret.kind # "Panic")
        => (ret.kind = "Err" /\ IsMissingQuery(ret.err))

\* C2: an input that is neither a String nor a Record ends the call in the
\* UnsupportedInput error, whose message names the input's type and whose span
\* is the call's head; the call never reaches the conversion, the JSON parse,
\* the query compilation, the evaluation or the materialization.
C2_UnsupportedInput ==
    (pc # "idle" /\ input.tag \notin {"String", "Record"})
        => /\ pc \in {"match", "done"}
           /\ pc = "done" =>
                /\ ret = Err(LabeledError("Expected some input from pipeline",
                                          "requires some input, got " \o get_type(input),
                                          Some(head)))
                /\ input.tag = "Bool" => ret.err.msg = "requires some input, got bool"
                /\ serde_json = NoValue
                /\ json_value = NoValue

C2_BoolRejected ==
    /\ pc = "done"
    /\ input.tag = "Bool"
    /\ ret.kind = "Err"
    /\ IsUnsupportedInput(ret.err)
    /\ ret.err.msg = "requires some input, got bool"

\* C3: value_to_json_value of a List or a Record with a child, at any depth,
\* whose conversion fails returns an error: no document, no crash.
C3_ChildFailureIsError ==
    (Canonicalized /\ conv_in.tag \in {"List", "Record"} /\ HasFailingChild(conv_in))
        => conv_out.kind = "Err"

\* C4: convert_sjson_to_value of a JSON Number never fails: an integer Number
\* within the 64-bit signed range becomes that Int, every other Number (among
\* them an integer above the signed maximum) becomes a Float.
C4_NumberTotal ==
    (lib_pc = "materialized" /\ mat_in.j = "Number")
        => IF mat_in.num.n = "PosInt" /\ mat_in.num.u <= I64_MAX
           THEN mat_out = Ok(VInt(mat_in.num.u, mat_span))
           ELSE IF mat_in.num.n = "NegInt"
           THEN mat_out = Ok(VInt(mat_in.num.i, mat_span))
           ELSE mat_out.kind = "Ok" /\ mat_out.val.tag = "Float"

RoundTripScalars == {"Nothing", "Bool", "Int", "Float", "String", "Binary", "CellPath"}

Materializes(vals, all) ==
    /\ Len(vals) = Len(all)
    /\ \A i \in 1..Len(all) :
            \E sp \in Spans : Ok(vals[i]) = convert_sjson_to_value(all[i], sp)

\* C6: a successful run returns one List holding the materialization of every
\* node the engine yielded, in the engine's order, duplicates kept; an empty
\* node sequence gives the empty List, not an error.
C6_ResultListInOrder ==
    /\ pc = "wrap" => Materializes(json_path_results, nodes)
    /\ (pc = "done" /\ ret.kind = "Ok")
            => (ret.val.tag = "List" /\ Materializes(ret.val.vals, nodes))
    /\ (pc = "done" /\ path # NoValue /\ nodes = <<>>) => ret = Ok(VList(<<>>, head))

C6_DuplicateNodesKept ==
    /\ pc = "done"
    /\ ret.kind = "Ok"
    /\ Len(nodes) >= 2
    /\ nodes[1] = nodes[2]
    /\ Len(ret.val.vals) = Len(nodes)

\* C7: every value of a successful run's result, the outer List and everything
\* inside it, carries the call's head as its span.
C7_AllSpansAreCallHead ==
    (pc = "done" /\ ret.kind = "Ok") => SpansOf(ret.val) = {head}

\* C8: value_to_json_value of a Float returns the JSON Number of that float
\* when it is finite; for NaN and the infinities it returns the error naming
\* the value, with the value's own span, and no number in its place.
C8_FloatFiniteOnly ==
    (Canonicalized /\ conv_in.tag = "Float")
        => IF is_finite(conv_in.f)
           THEN conv_out = Ok(JNumber(NFloat(conv_in.f)))
           ELSE /\ conv_out.kind = "Err"
                /\ conv_out.err.span = Some(conv_in.span)
                /\ conv_out.err.label =
                        CASE conv_in.f = NaN -> "Error converting value: NaN to f64"
                          [] conv_in.f = PosInf -> "Error converting value: inf to f64"
                          [] conv_in.f = NegInf -> "Error converting value: -inf to f64"

C8_NaNRejected ==
    /\ lib_pc = "canonicalized"
    /\ conv_in.tag = "Float"
    /\ conv_in.f = NaN
    /\ conv_out.kind = "Err"
    /\ conv_out.err.span = Some(conv_in.span)

\* The order of the steps, read off the call's position.
StepsInOrder ==
    /\ pc \in {"serialize"} => input.tag = "Record" /\ json_value # NoValue
    /\ pc \in {"query", "compile", "evaluate", "materialize", "wrap"}
            => serde_json # NoValue /\ from_str(raw) = Ok(serde_json)
    /\ pc \in {"compile", "evaluate", "materialize", "wrap"} => json_query.some
    /\ pc \in {"evaluate", "materialize", "wrap"}
            => JsonPath_parse(json_query.v.item) = Ok(path)
    /\ pc \in {"materialize", "wrap"} => nodes = JsonPath_query_all(path, serde_json)

FirstFailureWins ==
    (pc = "done" /\ json_query.some /\ input.tag = "String")
        => /\ from_str(input.s).kind = "Err"
                => (ret.kind = "Err" /\ IsInvalidJson(ret.err))
           /\ (from_str(input.s).kind = "Ok" /\ JsonPath_parse(json_query.v.item).kind = "Err")
                => (ret.kind = "Err" /\ IsInvalidQuery(ret.err))

\* C9: with a query present the steps run in the order shape check, Record
\* conversion, JSON parse, query compile, evaluate, materialize; the first
\* failing step's error ends the call (invalid JSON with an uncompilable query
\* gives InvalidJson, valid JSON with one gives InvalidQuery), and every call
\* ends in a List or in one labeled error.
C9_FirstFailureEndsCall ==
    /\ StepsInOrder
    /\ FirstFailureWins
    /\ (pc = "done" /\ json_query.some) => ret.kind \in {"Ok", "Err"}

\* C10: value_to_json_value of a single value of any variant returns a document
\* or an error, never a crash; Closure, Block, Range and Glob give JSON Null.
C10_EveryVariantHandled ==
    (Canonicalized /\ conv_in.tag \notin {"List", "Record", "LazyRecord", "CustomValue"})
        => /\ conv_out.kind \in {"Ok", "Err"}
           /\ conv_in.tag \in {"Closure", "Block", "Range", "Glob"} => conv_out = Ok(JNull)

====
